---- MODULE Spec2Model ----
(***************************************************************************)
(* Model of protobuf/src/singular.rs: the OptionLike capability, its      *)
(* implementations for Option<T> and Option<Box<T>>, and the dedicated    *)
(* container SingularPtrField<T> { value: Option<Box<T>>, set: bool }.    *)
(*                                                                         *)
(* A T is a small natural number.  An Option is a sequence of length 0    *)
(* (None) or 1 (Some).  A Box<T> is a record [addr, val]: addr names the  *)
(* heap allocation, val is the T stored in it.  Every method is an        *)
(* operator from the receiver (and the allocation counter) to a record    *)
(* [self, alive, n, ret]: the receiver afterwards, whether it still       *)
(* exists (a method taking self by value consumes it), the allocation     *)
(* counter afterwards, and what the call returned.                        *)
(***************************************************************************)
EXTENDS Integers, Sequences, FiniteSets, TLC

\* ---------------------------------------------------------------- bounds
MaxVal == 2
MaxAlloc == 3

Val == 0..MaxVal
\* a T that no operation input ever supplies: the content of stale storage
Stale == MaxVal + 1

\* ------------------------------------------------ std Option and Box
None == <<>>
Some(x) == <<x>>
Option_is_some(o) == Len(o) = 1

\* Box::new(v): a fresh allocation, the n+1-th of the run
Box_new(n, v) == [addr |-> n + 1, val |-> v]

OptVal == {None} \cup {Some(v) : v \in Val}

\* closures FnOnce(T) -> U a caller passes to map
Closures ==
    {[v \in Val |-> (v + 1) % (MaxVal + 1)], [v \in Val |-> MaxVal], [v \in Val |-> v]}

\* what Option::<T>::deserialize(deserializer) returns: Ok(opt) or Err(e)
DeOutcomes == {[ok |-> TRUE, opt |-> x] : x \in OptVal} \cup {[ok |-> FALSE, opt |-> None]}

\* ------------------------------------------ what a call hands back
\* panic: the call panicked;  out: the T (or Option<T>) it produced, by
\* value or behind the returned reference;  ref: the allocation a returned
\* reference points into (0: it does not point into a Box);  new: the
\* SingularPtrField the call constructed, if it returns one;  err: the call
\* returned Err;  called: the call ran the closure it was given;  dflt: how
\* the call produced a default T ("clear": <T as Clear>::clear on a T that
\* existed, "default": Default::default(), "none": it produced none)
Ret(panic, o, ref, new) ==
    [panic |-> panic, out |-> o, ref |-> ref, new |-> new,
     err |-> FALSE, called |-> FALSE, dflt |-> "none"]
Panic == Ret(TRUE, <<>>, 0, <<>>)
RetVal(o) == Ret(FALSE, o, 0, <<>>)
RetRef(b) == Ret(FALSE, Some(b.val), b.addr, <<>>)
RetNew(x) == Ret(FALSE, <<>>, 0, Some(x))
RetUnit == RetVal(None)
RetErr == [RetUnit EXCEPT !.err = TRUE]
Called(r) == [r EXCEPT !.called = TRUE]
ByClear(r) == [r EXCEPT !.dflt = "clear"]
ByDefault(r) == [r EXCEPT !.dflt = "default"]

Res(self, alive, n, ret) == [self |-> self, alive |-> alive, n |-> n, ret |-> ret]

\* ------------------------------------------ type-supplied capabilities
\* <T as Default>::default()
DefaultT == 0
\* <T as Clear>::clear(&mut self): reset the instance to its default
Clear_T(v) == DefaultT
\* <M as Message>::default_instance(): the shared default instance of M
default_instance == DefaultT
\* <Option<U> as Clear>::clear(&mut self): reset the Option itself to its
\* default, which is None (Option does not dereference to its content)
Clear_Option(o) == None

\* ------------------------------------------ impl OptionLike<T> for Option<T>
\* the T lives inline in the Option: references to it point into no Box
Option_into_option(self, n) == Res(None, FALSE, n, RetVal(self))

Option_as_option_ref(self, n) == Res(self, TRUE, n, RetVal(self))

Option_as_option_mut(self, n) == Res(self, TRUE, n, RetVal(self))

Option_set_value(self, n, v) == Res(Some(v), TRUE, n, RetUnit)

Option_set_default_always_fresh(self, n) ==
    Res(Some(DefaultT), TRUE, n, ByDefault(RetVal(Some(DefaultT))))

Option_set_default_keeps_value(self, n) ==
    IF Option_is_some(self)
    THEN Res(self, TRUE, n, RetVal(self))
    ELSE Res(Some(DefaultT), TRUE, n, RetVal(Some(DefaultT)))

Option_set_default(self, n) ==
    IF Option_is_some(self)
    THEN LET v == Clear_T(self[1])
         IN  Res(Some(v), TRUE, n, ByClear(RetVal(Some(v))))
    ELSE Res(Some(DefaultT), TRUE, n, ByDefault(RetVal(Some(DefaultT))))

\* the caller's `*r = v` through the &mut T of as_option_mut / set_default
Option_write(self, n, v) ==
    IF Option_is_some(self) THEN Res(Some(v), TRUE, n, RetUnit) ELSE Res(self, TRUE, n, RetUnit)

\* ------------------------------------------ impl OptionLike<T> for Option<Box<T>>
OptionBox_into_option(self, n) ==
    IF Option_is_some(self)
    THEN Res(None, FALSE, n, RetVal(Some(self[1].val)))
    ELSE Res(None, FALSE, n, RetVal(None))

OptionBox_as_option_ref(self, n) ==
    IF Option_is_some(self)
    THEN Res(self, TRUE, n, RetRef(self[1]))
    ELSE Res(self, TRUE, n, RetVal(None))

OptionBox_as_option_mut(self, n) ==
    IF Option_is_some(self)
    THEN Res(self, TRUE, n, RetRef(self[1]))
    ELSE Res(self, TRUE, n, RetVal(None))

OptionBox_set_value(self, n, v) == Res(Some(Box_new(n, v)), TRUE, n + 1, RetUnit)

OptionBox_set_default(self, n) ==
    IF Option_is_some(self)
    THEN LET b == [self[1] EXCEPT !.val = Clear_T(@)]
         IN  Res(Some(b), TRUE, n, ByClear(RetRef(b)))
    ELSE LET b == Box_new(n, DefaultT)
         IN  Res(Some(b), TRUE, n + 1, ByDefault(RetRef(b)))

OptionBox_write(self, n, ref, v) ==
    IF Option_is_some(self) /\ self[1].addr = ref
    THEN Res(Some([self[1] EXCEPT !.val = v]), TRUE, n, RetUnit)
    ELSE Res(self, TRUE, n, RetUnit)

\* ------------------------------------------ SingularPtrField<T>
Moved == [value |-> None, set |-> FALSE]

some(n, v) == Res([value |-> Some(Box_new(n, v)), set |-> TRUE], TRUE, n + 1, RetUnit)

none(n) == Res([value |-> None, set |-> FALSE], TRUE, n, RetUnit)

from_option(n, o) == IF Option_is_some(o) THEN some(n, o[1]) ELSE none(n)

is_some(self) == self.set

is_none(self) == ~is_some(self)

into_option_ignores_set(self, n) ==
    IF Option_is_some(self.value)
    THEN Res(Moved, FALSE, n, RetVal(Some(self.value[1].val)))
    ELSE Res(Moved, FALSE, n, RetVal(None))

into_option(self, n) ==
    IF self.set
    THEN IF Option_is_some(self.value)
         THEN Res(Moved, FALSE, n, RetVal(Some(self.value[1].val)))
         ELSE Res(Moved, FALSE, n, Panic)
    ELSE Res(Moved, FALSE, n, RetVal(None))

as_ref(self, n) ==
    IF self.set
    THEN IF Option_is_some(self.value)
         THEN Res(self, TRUE, n, RetRef(self.value[1]))
         ELSE Res(self, TRUE, n, Panic)
    ELSE Res(self, TRUE, n, RetVal(None))

as_mut(self, n) ==
    IF self.set
    THEN IF Option_is_some(self.value)
         THEN Res(self, TRUE, n, RetRef(self.value[1]))
         ELSE Res(self, TRUE, n, Panic)
    ELSE Res(self, TRUE, n, RetVal(None))

\* Option<&T>::unwrap of as_ref()
get_ref(self, n) ==
    LET r == as_ref(self, n)
    IN  IF r.ret.panic \/ ~Option_is_some(r.ret.out)
        THEN Res(self, TRUE, n, Panic)
        ELSE r

get_mut_ref(self, n) ==
    LET r == as_mut(self, n)
    IN  IF r.ret.panic \/ ~Option_is_some(r.ret.out)
        THEN Res(self, TRUE, n, Panic)
        ELSE r

unwrap_ignores_set(self, n) ==
    IF Option_is_some(self.value)
    THEN Res(Moved, FALSE, n, RetVal(Some(self.value[1].val)))
    ELSE Res(Moved, FALSE, n, Panic)

unwrap(self, n) ==
    IF self.set
    THEN IF Option_is_some(self.value)
         THEN Res(Moved, FALSE, n, RetVal(Some(self.value[1].val)))
         ELSE Res(Moved, FALSE, n, Panic)
    ELSE Res(Moved, FALSE, n, Panic)

take_keeps_set(self, n) ==
    IF self.set
    THEN Res([value |-> None, set |-> TRUE], TRUE, n, RetVal(Some(self.value[1].val)))
    ELSE Res(self, TRUE, n, RetVal(None))

take_keeps_storage(self, n) ==
    IF self.set
    THEN Res([self EXCEPT !.set = FALSE], TRUE, n, RetVal(Some(self.value[1].val)))
    ELSE Res(self, TRUE, n, RetVal(None))

take(self, n) ==
    IF self.set
    THEN IF Option_is_some(self.value)
         THEN Res([value |-> None, set |-> FALSE], TRUE, n,
                  RetVal(Some(self.value[1].val)))
         ELSE Res([value |-> None, set |-> FALSE], TRUE, n, Panic)
    ELSE Res(self, TRUE, n, RetVal(None))

clear_releases(self, n) == Res([value |-> None, set |-> FALSE], TRUE, n, RetUnit)

clear(self, n) == Res([self EXCEPT !.set = FALSE], TRUE, n, RetUnit)

set_default_drops_cleared(self, n) ==
    IF self.set
    THEN LET b == [self.value[1] EXCEPT !.val = DefaultT]
         IN  Res([self EXCEPT !.value = Some(b)], TRUE, n, ByClear(RetRef(b)))
    ELSE LET b == Box_new(n, DefaultT)
         IN  Res([value |-> Some(b), set |-> TRUE], TRUE, n + 1, ByDefault(RetRef(b)))

set_default_reallocates(self, n) ==
    LET s2 == [value |-> Some(Box_new(n, DefaultT)), set |-> TRUE]
    IN  Res(s2, TRUE, n + 1, as_mut(s2, n + 1).ret)

\* <SingularPtrField<T> as OptionLike<T>>::set_default
set_default(self, n) ==
    LET s1 == [self EXCEPT !.set = TRUE]
        s2 == IF Option_is_some(s1.value)
              THEN [s1 EXCEPT !.value = Some([@[1] EXCEPT !.val = Clear_T(@)])]
              ELSE [s1 EXCEPT !.value = Some(Box_new(n, DefaultT))]
        n2 == IF Option_is_some(s1.value) THEN n ELSE n + 1
        r == as_mut(s2, n2).ret
    IN  Res(s2, TRUE, n2, IF Option_is_some(s1.value) THEN ByClear(r) ELSE ByDefault(r))

set_value_forgets_flag(self, n, v) ==
    Res([self EXCEPT !.value = Some(Box_new(n, v))], TRUE, n + 1, RetUnit)

\* <SingularPtrField<T> as OptionLike<T>>::set_value
set_value(self, n, v) == Res(some(n, v).self, TRUE, n + 1, RetUnit)

unwrap_or_prefers_storage(self, n, def) ==
    IF Option_is_some(self.value)
    THEN Res(Moved, FALSE, n, RetVal(Some(self.value[1].val)))
    ELSE Res(Moved, FALSE, n, RetVal(Some(def)))

unwrap_or(self, n, def) ==
    IF self.set
    THEN IF Option_is_some(self.value)
         THEN Res(Moved, FALSE, n, RetVal(Some(self.value[1].val)))
         ELSE Res(Moved, FALSE, n, Panic)
    ELSE Res(Moved, FALSE, n, RetVal(Some(def)))

\* fv is what the closure f returns when it is called
unwrap_or_else(self, n, fv) ==
    IF self.set
    THEN IF Option_is_some(self.value)
         THEN Res(Moved, FALSE, n, RetVal(Some(self.value[1].val)))
         ELSE Res(Moved, FALSE, n, Panic)
    ELSE Res(Moved, FALSE, n, Called(RetVal(Some(fv))))

unwrap_or_default(self, n) ==
    IF self.set
    THEN unwrap(self, n)
    ELSE IF Option_is_some(self.value)
         THEN LET value == Clear_Option(self.value)
              IN  IF Option_is_some(value)
                  THEN Res(Moved, FALSE, n, RetVal(Some(value[1].val)))
                  ELSE Res(Moved, FALSE, n, Panic)
         ELSE Res(Moved, FALSE, n, ByDefault(RetVal(Some(DefaultT))))

get_or_default_initializes(self, n) ==
    IF is_none(self) THEN set_default(self, n) ELSE as_ref(self, n)

get_or_default(self, n) ==
    LET r == as_ref(self, n)
    IN  IF r.ret.panic \/ Option_is_some(r.ret.out)
        THEN r
        ELSE Res(self, TRUE, n, RetVal(Some(default_instance)))

mut_or_default_always_resets(self, n) ==
    LET r == set_default(self, n)
    IN  get_mut_ref(r.self, r.n)

mut_or_default(self, n) ==
    LET r == IF is_none(self) THEN set_default(self, n) ELSE Res(self, TRUE, n, RetUnit)
    IN  get_mut_ref(r.self, r.n)

\* the caller's `*r = v` through the &mut T that as_mut, get_mut_ref,
\* set_default or mut_or_default returned
write(self, n, ref, v) ==
    IF Option_is_some(self.value) /\ self.value[1].addr = ref
    THEN Res([self EXCEPT !.value = Some([@[1] EXCEPT !.val = v])], TRUE, n, RetUnit)
    ELSE Res(self, TRUE, n, RetUnit)

clone_fieldwise(self, n) ==
    IF Option_is_some(self.value)
    THEN Res(self, TRUE, n + 1,
             RetNew([value |-> Some(Box_new(n, self.value[1].val)), set |-> self.set]))
    ELSE Res(self, TRUE, n, RetNew([value |-> None, set |-> self.set]))

clone(self, n) ==
    IF self.set
    THEN LET r == as_ref(self, n)
         IN  IF r.ret.panic \/ ~Option_is_some(r.ret.out)
             THEN Res(self, TRUE, n, Panic)
             ELSE Res(self, TRUE, n + 1, RetNew(some(n, r.ret.out[1]).self))
    ELSE Res(self, TRUE, n, RetNew(none(n).self))

\* what fmt writes: "None", or "Some(" value ")"
fmt(self, n) ==
    IF is_some(self)
    THEN LET r == as_ref(self, n)
         IN  IF r.ret.panic \/ ~Option_is_some(r.ret.out)
             THEN Res(self, TRUE, n, Panic)
             ELSE Res(self, TRUE, n, RetVal(<<"Some", r.ret.out[1]>>))
    ELSE Res(self, TRUE, n, RetVal(<<"None">>))

eq_raw_storage(self, other, n) ==
    LET content(x) == IF Option_is_some(x.value) THEN Some(x.value[1].val) ELSE None
    IN  Res(self, TRUE, n, RetVal(Some(content(self) = content(other))))

\* Option<&T> == Option<&T> compares the referents, not the references
eq(self, other, n) ==
    LET l == as_ref(self, n)
        r == as_ref(other, n)
    IN  IF l.ret.panic \/ r.ret.panic
        THEN Res(self, TRUE, n, Panic)
        ELSE Res(self, TRUE, n, RetVal(Some(l.ret.out = r.ret.out)))

\* what Option<&T>::hash feeds the hasher: the discriminant, then the T
hash(self, n) ==
    LET r == as_ref(self, n)
    IN  IF r.ret.panic
        THEN Res(self, TRUE, n, Panic)
        ELSE IF Option_is_some(r.ret.out)
             THEN Res(self, TRUE, n, RetVal(<<1, r.ret.out[1]>>))
             ELSE Res(self, TRUE, n, RetVal(<<0>>))

\* the zero or one references the iterator yields
iter(self, n) == as_ref(self, n)

serialize_storage(self, n) ==
    IF Option_is_some(self.value)
    THEN Res(self, TRUE, n, RetVal(Some(self.value[1].val)))
    ELSE Res(self, TRUE, n, RetVal(None))

\* what the serializer is handed: the Option<&T> of as_ref()
serialize(self, n) ==
    LET r == as_ref(self, n)
    IN  IF r.ret.panic THEN Res(self, TRUE, n, Panic) ELSE Res(self, TRUE, n, RetVal(r.ret.out))

\* d is what Option::deserialize returned; Ok(opt) goes through From<Option<T>>
deserialize(n, d) ==
    IF d.ok
    THEN LET x == from_option(n, d.opt)
         IN  Res(x.self, TRUE, x.n, RetNew(x.self))
    ELSE Res(Moved, FALSE, n, RetErr)

map_ignores_set(self, n, F) ==
    IF Option_is_some(self.value)
    THEN Res(Moved, FALSE, n + 1, Called(RetNew(some(n, F[self.value[1].val]).self)))
    ELSE Res(Moved, FALSE, n, RetNew(none(n).self))

\* F is the closure: Option::map applies it to the content of Some only
map(self, n, F) ==
    LET r == into_option(self, n)
    IN  IF r.ret.panic
        THEN Res(Moved, FALSE, n, Panic)
        ELSE IF Option_is_some(r.ret.out)
             THEN LET x == from_option(n, Some(F[r.ret.out[1]]))
                  IN  Res(Moved, FALSE, x.n, Called(RetNew(x.self)))
             ELSE Res(Moved, FALSE, n, RetNew(from_option(n, None).self))

\* ------------------------------------------ the field under test
\* f: the field;  alive: it has not been consumed;  nalloc: allocations made
\* so far;  op, arg, ret: the last call, its argument, what it returned;
\* pre, pren: f and nalloc before the last call
VARIABLES f, alive, nalloc, op, arg, pre, pren, ret

\* the three OptionLike representations driven by the same calls:
\* o: Option<T>;  ob: Option<Box<T>>;  s: SingularPtrField<T>;  nob, ns: the
\* allocations ob and s made;  olalive: they have not been consumed;
\* olop, olpre, olret: the last call, the three before it, its three results
VARIABLES o, ob, s, nob, ns, olalive, olop, olpre, olret

\* two fields driven by the same calls: a and b, their allocation counts
\* na and nb, the last call pop and its results ra and rb
VARIABLES a, b, na, nb, palive, pop, ra, rb

mainvars == <<f, alive, nalloc, op, arg, pre, pren, ret>>
olvars == <<o, ob, s, nob, ns, olalive, olop, olpre, olret>>
pairvars == <<a, b, na, nb, palive, pop, ra, rb>>
vars == <<mainvars, olvars, pairvars>>

InitOL ==
    /\ o = None
    /\ ob = None
    /\ s = none(0).self
    /\ nob = 0
    /\ ns = 0
    /\ olalive = TRUE
    /\ olop = "new"
    /\ olpre = <<None, None, none(0).self>>
    /\ olret = <<RetUnit, RetUnit, RetUnit>>

\* a field left by some(x); clear()
Cleared(x) == clear(some(0, x).self, 1).self

\* a: unset, with no storage or with retained storage;  b: unset, retaining
\* storage that holds Stale
InitPairOf(a0) ==
    /\ a = a0
    /\ b = Cleared(Stale)
    /\ na = IF Option_is_some(a0.value) THEN 1 ELSE 0
    /\ nb = 1
    /\ palive = TRUE
    /\ pop = "clear"
    /\ ra = RetUnit
    /\ rb = RetUnit

InitMain ==
    /\ f = none(0).self
    /\ alive = TRUE
    /\ nalloc = 0
    /\ op = "none"
    /\ arg = None
    /\ pre = none(0).self
    /\ pren = 0
    /\ ret = RetUnit

Init == InitMain /\ InitOL /\ InitPairOf(none(0).self)

\* the field becomes r.self, the call is recorded; the run stays within
\* MaxAlloc allocations
Apply(name, x, r) ==
    /\ r.n <= MaxAlloc
    /\ f' = r.self
    /\ alive' = r.alive
    /\ nalloc' = r.n
    /\ op' = name
    /\ arg' = x
    /\ pre' = f
    /\ pren' = nalloc
    /\ ret' = r.ret
    /\ UNCHANGED <<olvars, pairvars>>

\* fields another variable of the program can hold, to compare f with
Others ==
    LET base == {some(MaxAlloc, w).self : w \in Val}
    IN  {none(MaxAlloc).self}
        \cup base
        \cup {clear(x, MaxAlloc + 1).self : x \in base}
        \cup {take(x, MaxAlloc + 1).self : x \in base}
        \cup {set_default(clear(x, MaxAlloc + 1).self, MaxAlloc + 1).self : x \in base}

\* x = SingularPtrField::some(v)
DoSome == \E v \in Val : Apply("some", Some(v), some(nalloc, v))

\* x = SingularPtrField::none()
DoNone == Apply("none", None, none(nalloc))

\* x = SingularPtrField::from_option(o)
DoFromOption == \E opt \in OptVal : Apply("from_option", opt, from_option(nalloc, opt))

DoClear == alive /\ Apply("clear", None, clear(f, nalloc))

DoTake == alive /\ Apply("take", None, take(f, nalloc))

DoSetDefault == alive /\ Apply("set_default", None, set_default(f, nalloc))

DoSetValue == alive /\ \E v \in Val : Apply("set_value", Some(v), set_value(f, nalloc, v))

DoMutOrDefault == alive /\ Apply("mut_or_default", None, mut_or_default(f, nalloc))

DoGetOrDefault == alive /\ Apply("get_or_default", None, get_or_default(f, nalloc))

DoAsRef == alive /\ Apply("as_ref", None, as_ref(f, nalloc))

DoAsMut == alive /\ Apply("as_mut", None, as_mut(f, nalloc))

DoGetRef == alive /\ Apply("get_ref", None, get_ref(f, nalloc))

DoGetMutRef == alive /\ Apply("get_mut_ref", None, get_mut_ref(f, nalloc))

\* `*r = v` while the &mut T of the previous call is still borrowed
DoWrite ==
    /\ alive
    /\ op \in {"as_mut", "get_mut_ref", "set_default", "mut_or_default"}
    /\ ~ret.panic
    /\ ret.ref # 0
    /\ \E v \in Val : Apply("write", Some(v), write(f, nalloc, ret.ref, v))

DoIntoOption == alive /\ Apply("into_option", None, into_option(f, nalloc))

DoUnwrap == alive /\ Apply("unwrap", None, unwrap(f, nalloc))

DoUnwrapOr == alive /\ \E d \in Val : Apply("unwrap_or", Some(d), unwrap_or(f, nalloc, d))

DoUnwrapOrElse ==
    alive /\ \E d \in Val : Apply("unwrap_or_else", Some(d), unwrap_or_else(f, nalloc, d))

DoUnwrapOrDefault == alive /\ Apply("unwrap_or_default", None, unwrap_or_default(f, nalloc))

DoClone == alive /\ Apply("clone", None, clone(f, nalloc))

DoFmt == alive /\ Apply("fmt", None, fmt(f, nalloc))

DoEq == alive /\ \E other \in Others : Apply("eq", Some(other), eq(f, other, nalloc))

DoHash == alive /\ Apply("hash", None, hash(f, nalloc))

DoIter == alive /\ Apply("iter", None, iter(f, nalloc))

DoMap == alive /\ \E F \in Closures : Apply("map", Some(F), map(f, nalloc, F))

DoSerialize == alive /\ Apply("serialize", None, serialize(f, nalloc))

\* x = SingularPtrField::deserialize(d)?  -- on Err nothing is assigned
DoDeserialize ==
    \E d \in DeOutcomes :
        LET r == deserialize(nalloc, d)
        IN  Apply("deserialize", Some(d), IF r.ret.err THEN Res(f, alive, nalloc, r.ret) ELSE r)

Next ==
    \/ DoSome
    \/ DoNone
    \/ DoFromOption
    \/ DoClear
    \/ DoTake
    \/ DoSetDefault
    \/ DoSetValue
    \/ DoMutOrDefault
    \/ DoGetOrDefault
    \/ DoAsRef
    \/ DoAsMut
    \/ DoGetRef
    \/ DoGetMutRef
    \/ DoWrite
    \/ DoIntoOption
    \/ DoUnwrap
    \/ DoUnwrapOr
    \/ DoUnwrapOrElse
    \/ DoUnwrapOrDefault
    \/ DoClone
    \/ DoFmt
    \/ DoEq
    \/ DoHash
    \/ DoIter
    \/ DoMap
    \/ DoSerialize
    \/ DoDeserialize

Spec == Init /\ [][Next]_vars

\* ------------------------------------------ the three representations
\* the same OptionLike call on o, ob and s
OLApply(name, r1, r2, r3) ==
    /\ r2.n <= MaxAlloc
    /\ r3.n <= MaxAlloc
    /\ o' = r1.self
    /\ ob' = r2.self
    /\ s' = r3.self
    /\ nob' = r2.n
    /\ ns' = r3.n
    /\ olalive' = r3.alive
    /\ olop' = name
    /\ olpre' = <<o, ob, s>>
    /\ olret' = <<r1.ret, r2.ret, r3.ret>>
    /\ UNCHANGED <<mainvars, pairvars>>

\* the empty value of each representation
OLNew ==
    OLApply("new", Res(None, TRUE, 0, RetUnit), Res(None, TRUE, nob, RetUnit), none(ns))

OLSetValue ==
    /\ olalive
    /\ \E v \in Val :
          OLApply("set_value", Option_set_value(o, 0, v), OptionBox_set_value(ob, nob, v),
                  set_value(s, ns, v))

OLSetDefault ==
    /\ olalive
    /\ OLApply("set_default", Option_set_default(o, 0), OptionBox_set_default(ob, nob),
               set_default(s, ns))

OLAsOptionRef ==
    /\ olalive
    /\ OLApply("as_option_ref", Option_as_option_ref(o, 0), OptionBox_as_option_ref(ob, nob),
               as_ref(s, ns))

OLAsOptionMut ==
    /\ olalive
    /\ OLApply("as_option_mut", Option_as_option_mut(o, 0), OptionBox_as_option_mut(ob, nob),
               as_mut(s, ns))

\* `*r = v` through the &mut T each representation handed out, where it
\* handed one out
OLWrite ==
    /\ olalive
    /\ olop \in {"as_option_mut", "set_default"}
    /\ \E v \in Val :
          OLApply("write",
                  IF Option_is_some(olret[1].out)
                  THEN Option_write(o, 0, v) ELSE Res(o, TRUE, 0, RetUnit),
                  IF Option_is_some(olret[2].out)
                  THEN OptionBox_write(ob, nob, olret[2].ref, v) ELSE Res(ob, TRUE, nob, RetUnit),
                  IF Option_is_some(olret[3].out)
                  THEN write(s, ns, olret[3].ref, v) ELSE Res(s, TRUE, ns, RetUnit))

OLIntoOption ==
    /\ olalive
    /\ OLApply("into_option", Option_into_option(o, 0), OptionBox_into_option(ob, nob),
               into_option(s, ns))

NextOL ==
    \/ OLNew
    \/ OLSetValue
    \/ OLSetDefault
    \/ OLAsOptionRef
    \/ OLAsOptionMut
    \/ OLWrite
    \/ OLIntoOption

SpecOL == Init /\ [][NextOL]_vars

\* ------------------------------------------ two fields, the same calls
PApply(name, r1, r2) ==
    /\ r1.n <= MaxAlloc
    /\ r2.n <= MaxAlloc
    /\ a' = r1.self
    /\ b' = r2.self
    /\ na' = r1.n
    /\ nb' = r2.n
    /\ palive' = (r1.alive /\ r2.alive)
    /\ pop' = name
    /\ ra' = r1.ret
    /\ rb' = r2.ret
    /\ UNCHANGED <<mainvars, olvars>>

PClear == palive /\ PApply("clear", clear(a, na), clear(b, nb))

PTake == palive /\ PApply("take", take(a, na), take(b, nb))

PSetDefault == palive /\ PApply("set_default", set_default(a, na), set_default(b, nb))

PSetValue ==
    palive /\ \E v \in Val : PApply("set_value", set_value(a, na, v), set_value(b, nb, v))

PMutOrDefault == palive /\ PApply("mut_or_default", mut_or_default(a, na), mut_or_default(b, nb))

PGetOrDefault == palive /\ PApply("get_or_default", get_or_default(a, na), get_or_default(b, nb))

PAsRef == palive /\ PApply("as_ref", as_ref(a, na), as_ref(b, nb))

PAsMut == palive /\ PApply("as_mut", as_mut(a, na), as_mut(b, nb))

PWrite ==
    /\ palive
    /\ pop \in {"as_mut", "set_default", "mut_or_default"}
    /\ \E v \in Val :
          PApply("write",
                 IF ra.ref # 0 THEN write(a, na, ra.ref, v) ELSE Res(a, TRUE, na, RetUnit),
                 IF rb.ref # 0 THEN write(b, nb, rb.ref, v) ELSE Res(b, TRUE, nb, RetUnit))

PIntoOption == palive /\ PApply("into_option", into_option(a, na), into_option(b, nb))

PUnwrapOr ==
    palive /\ \E d \in Val : PApply("unwrap_or", unwrap_or(a, na, d), unwrap_or(b, nb, d))

PUnwrapOrElse ==
    palive /\ \E d \in Val :
        PApply("unwrap_or_else", unwrap_or_else(a, na, d), unwrap_or_else(b, nb, d))

PUnwrapOrDefault ==
    palive /\ PApply("unwrap_or_default", unwrap_or_default(a, na), unwrap_or_default(b, nb))

PClone == palive /\ PApply("clone", clone(a, na), clone(b, nb))

PFmt == palive /\ PApply("fmt", fmt(a, na), fmt(b, nb))

PEq == palive /\ \E other \in Others : PApply("eq", eq(a, other, na), eq(b, other, nb))

PEqEachOther == palive /\ PApply("eq", eq(a, b, na), eq(b, a, nb))

PHash == palive /\ PApply("hash", hash(a, na), hash(b, nb))

PIter == palive /\ PApply("iter", iter(a, na), iter(b, nb))

PSerialize == palive /\ PApply("serialize", serialize(a, na), serialize(b, nb))

NextPair ==
    \/ PClear
    \/ PTake
    \/ PSetDefault
    \/ PSetValue
    \/ PMutOrDefault
    \/ PGetOrDefault
    \/ PAsRef
    \/ PAsMut
    \/ PWrite
    \/ PIntoOption
    \/ PUnwrapOr
    \/ PUnwrapOrElse
    \/ PUnwrapOrDefault
    \/ PClone
    \/ PFmt
    \/ PEq
    \/ PEqEachOther
    \/ PHash
    \/ PIter
    \/ PSerialize

InitPair ==
    /\ InitMain
    /\ InitOL
    /\ \E a0 \in {none(0).self} \cup {Cleared(x) : x \in Val} : InitPairOf(a0)

SpecPair == InitPair /\ [][NextPair]_vars

\* ------------------------------------------ properties of the field

\* the logical content of a field: what it holds when it is present
Logical(x) == IF x.set THEN Some(x.value[1].val) ELSE None

\* the allocation in a storage slot, 0 when the slot is empty
AddrOf(x) == IF Option_is_some(x.value) THEN x.value[1].addr ELSE 0

\* C1: in every state any sequence of public operations reaches, a field
\* whose presence flag is set has a non-empty storage slot.
C1_SetImpliesStorage == f.set => Option_is_some(f.value)

\* C1 witness: a cleared field with retained storage was made present again
C1_Witness ==
    /\ op = "set_default"
    /\ ~pre.set
    /\ Option_is_some(pre.value)
    /\ f.set
    /\ Option_is_some(f.value)

\* C2: unwrap_or_default never fails: a set field yields its value, an unset
\* field (with or without retained storage) yields a T equal to the default.
C2_UnwrapOrDefaultTotal ==
    op = "unwrap_or_default" =>
        /\ ~ret.panic
        /\ pre.set => ret.out = Some(pre.value[1].val)
        /\ ~pre.set => ret.out = Some(DefaultT)

\* C3: set_default on a non-empty slot keeps the allocation and resets its
\* content in place; on an empty slot it makes a fresh allocation holding
\* the default.  Afterwards the field is present and the returned reference
\* points at the stored T, which equals the default.
C3_SetDefault ==
    op = "set_default" =>
        /\ ~ret.panic
        /\ f.set
        /\ Option_is_some(f.value)
        /\ f.value[1].val = DefaultT
        /\ ret.out = Some(DefaultT)
        /\ ret.ref = f.value[1].addr
        /\ Option_is_some(pre.value) => (AddrOf(f) = AddrOf(pre) /\ nalloc = pren)
        /\ ~Option_is_some(pre.value) => (AddrOf(f) = pren + 1 /\ nalloc = pren + 1)

\* C3 witness: set_default reused the storage a clear() had left behind,
\* which held a non-default value
C3_Witness ==
    /\ op = "set_default"
    /\ ~pre.set
    /\ Option_is_some(pre.value)
    /\ pre.value[1].val # DefaultT
    /\ AddrOf(f) = AddrOf(pre)
    /\ f.value[1].val = DefaultT

\* C4: clear changes the presence flag only: the field is absent afterwards
\* and the storage slot is exactly what it was.
C4_ClearFrame ==
    op = "clear" =>
        /\ ~ret.panic
        /\ is_none(f)
        /\ f.value = pre.value

\* C4 witness: a present field was cleared and its storage is still there
C4_Witness ==
    /\ op = "clear"
    /\ pre.set
    /\ Option_is_some(f.value)
    /\ ~f.set

\* C6: get_ref, get_mut_ref and unwrap panic exactly when the field is
\* absent, retained storage or not, and otherwise return the contained value.
C6_PanicIffAbsent ==
    op \in {"get_ref", "get_mut_ref", "unwrap"} =>
        /\ ret.panic <=> ~pre.set
        /\ pre.set => ret.out = Some(pre.value[1].val)

\* C6 witness: unwrap panicked on a cleared field that retains storage
C6_Witness ==
    /\ op = "unwrap"
    /\ ~pre.set
    /\ Option_is_some(pre.value)
    /\ ret.panic

\* C7: take on a set field returns Some(value), leaves the field absent and
\* the slot empty, so that a following set_default allocates; take on an
\* unset field returns None and leaves flag and slot as they were.
C7_Take ==
    op = "take" =>
        /\ ~ret.panic
        /\ pre.set =>
              /\ ret.out = Some(pre.value[1].val)
              /\ ~f.set
              /\ f.value = None
              /\ set_default(f, nalloc).n = nalloc + 1
        /\ ~pre.set =>
              /\ ret.out = None
              /\ f = pre

\* C7 witness: take moved the value out of a present field
C7_Witness ==
    /\ op = "take"
    /\ pre.set
    /\ ret.out = Some(pre.value[1].val)
    /\ f.value = None

\* C8: mut_or_default never fails and leaves the field present: a present
\* field keeps its value, which is returned; an absent one holds and
\* returns a T equal to the default.
C8_MutOrDefault ==
    op = "mut_or_default" =>
        /\ ~ret.panic
        /\ f.set
        /\ Option_is_some(f.value)
        /\ ret.ref = AddrOf(f)
        /\ ret.out = Some(f.value[1].val)
        /\ pre.set => f = pre
        /\ ~pre.set => f.value[1].val = DefaultT

\* C8 witness: mut_or_default on a present field holding a non-default value
C8_Witness ==
    /\ op = "mut_or_default"
    /\ pre.set
    /\ pre.value[1].val # DefaultT
    /\ ret.out = Some(pre.value[1].val)

\* C9: two fields are equal, hash alike and format alike exactly when their
\* logical contents are equal, whatever storage either retains; so a field
\* emptied by take or clear equals none(), and one reset by set_default
\* after clear equals some(default).
C9_EqByLogical ==
    /\ op = "eq" => ret.out = Some(Logical(pre) = Logical(arg[1]))
    /\ alive =>
          \A other \in Others :
              /\ eq(f, other, nalloc).ret.out = Some(Logical(f) = Logical(other))
              /\ (hash(f, nalloc).ret = hash(other, nalloc).ret)
                    <=> (Logical(f) = Logical(other))
              /\ (fmt(f, nalloc).ret = fmt(other, nalloc).ret)
                    <=> (Logical(f) = Logical(other))
    /\ op \in {"take", "clear"} =>
          eq(f, none(nalloc).self, nalloc).ret.out = Some(TRUE)
    /\ (op = "set_default" /\ ~pre.set /\ Option_is_some(pre.value)) =>
          eq(f, some(MaxAlloc, DefaultT).self, nalloc).ret.out = Some(TRUE)

\* C9 witness: a cleared field that retains a value compared equal to a
\* field that has no storage at all
C9_Witness ==
    /\ op = "eq"
    /\ ~f.set
    /\ Option_is_some(f.value)
    /\ arg[1] = none(MaxAlloc).self
    /\ ret.out = Some(TRUE)

\* ------------------------------------------ properties of the pair

\* the Ts a result carries
OutVals(r, name) ==
    IF name = "eq" THEN {}
    ELSE IF name = "fmt" THEN (IF Len(r.out) = 2 THEN {r.out[2]} ELSE {})
    ELSE {r.out[i] : i \in 1..Len(r.out)}

\* the Ts in the field a result carries, stored or logical
NewVals(r) ==
    IF r.new = <<>> THEN {}
    ELSE {r.new[1].value[i].val : i \in 1..Len(r.new[1].value)}

\* the two calls are indistinguishable to the caller
SameResult ==
    /\ ra.panic = rb.panic
    /\ ra.out = rb.out
    /\ (ra.new = <<>>) <=> (rb.new = <<>>)
    /\ ra.new # <<>> => Logical(ra.new[1]) = Logical(rb.new[1])

\* C5: what retained-but-unset storage holds is never observable: two unset
\* fields that differ only in retained storage and its stale content give
\* the same results under every sequence of public operations, and no
\* result carries the stale value.
C5_StaleUnobservable ==
    /\ SameResult
    /\ Stale \notin OutVals(ra, pop) \cup OutVals(rb, pop)
    /\ Stale \notin NewVals(ra) \cup NewVals(rb)

\* ------------------------------------------ properties of OptionLike

\* C10: driven by the same set_value and set_default calls from their
\* empty values, Option<T>, Option<Box<T>> and SingularPtrField<T> give the
\* same as_option_ref, as_option_mut and into_option at every step, and
\* set_default returns a T equal to the default in all three.
C10_Interchangeable ==
    /\ \A i \in 1..3 : ~olret[i].panic
    /\ olalive =>
          /\ Option_as_option_ref(o, 0).ret.out = OptionBox_as_option_ref(ob, nob).ret.out
          /\ Option_as_option_ref(o, 0).ret.out = as_ref(s, ns).ret.out
          /\ Option_as_option_mut(o, 0).ret.out = OptionBox_as_option_mut(ob, nob).ret.out
          /\ Option_as_option_mut(o, 0).ret.out = as_mut(s, ns).ret.out
          /\ Option_into_option(o, 0).ret = OptionBox_into_option(ob, nob).ret
          /\ Option_into_option(o, 0).ret = into_option(s, ns).ret
    /\ olop \in {"as_option_ref", "as_option_mut", "into_option"} =>
          /\ olret[1].out = olret[2].out
          /\ olret[1].out = olret[3].out
    /\ olop = "set_default" => \A i \in 1..3 : olret[i].out = Some(DefaultT)

\* C10 witness: set_default hit all three while they held a non-default
\* value, and into_option then returned the default from all three
C10_Witness ==
    /\ olop = "set_default"
    /\ olpre[1] \in {Some(v) : v \in Val \ {DefaultT}}
    /\ olpre[3].set
    /\ \A i \in 1..3 : olret[i].out = Some(DefaultT)

\* ------------------------------------------ further properties of the field

\* C11: set_value(v) makes the field present with value v from every prior
\* state: afterwards as_ref() is Some(v) and a set flag has storage.
C11_SetValue ==
    op = "set_value" =>
        /\ ~ret.panic
        /\ f.set
        /\ Option_is_some(f.value)
        /\ ~as_ref(f, nalloc).ret.panic
        /\ as_ref(f, nalloc).ret.out = arg

\* C11 witness: set_value on a cleared field that retained another value
C11_Witness ==
    /\ op = "set_value"
    /\ ~pre.set
    /\ Option_is_some(pre.value)
    /\ Some(pre.value[1].val) # arg
    /\ Logical(f) = arg

\* C12: none().map(f) == none() and some(v).map(f) == some(f(v)); on any
\* reachable field map yields an absent field, without applying f, iff the
\* field was absent, retained storage or not.
C12_Map ==
    /\ op = "map" =>
          /\ ~ret.panic
          /\ ret.new # <<>>
          /\ pre.set => (ret.called /\ ret.new[1] = some(pren, arg[1][pre.value[1].val]).self)
          /\ ~pre.set => (~ret.called /\ ret.new[1] = none(pren).self)
    /\ \A F \in Closures :
          /\ eq(map(none(nalloc).self, nalloc, F).ret.new[1], none(nalloc).self, nalloc).ret.out
                = Some(TRUE)
          /\ \A v \in Val :
                eq(map(some(nalloc, v).self, nalloc + 1, F).ret.new[1],
                   some(nalloc, F[v]).self, nalloc).ret.out = Some(TRUE)

\* C12 witness: map on a cleared field with retained storage gave none()
\* and did not run the closure
C12_Witness ==
    /\ op = "map"
    /\ ~pre.set
    /\ Option_is_some(pre.value)
    /\ ~ret.called
    /\ ret.new = Some(none(pren).self)

\* C13: some(v).into_option() == Some(v), none().into_option() == None,
\* from_option(x).into_option() == x, and into_option of any reachable field
\* is Some(v) iff the field was set.
C13_IntoOption ==
    /\ op = "into_option" => (~ret.panic /\ ret.out = Logical(pre))
    /\ op \in {"some", "none", "from_option"} => into_option(f, nalloc).ret = RetVal(arg)
    /\ \A x \in OptVal : into_option(from_option(nalloc, x).self, nalloc + 1).ret = RetVal(x)

\* C13 witness: into_option of a cleared field with retained storage is None
C13_Witness ==
    /\ op = "into_option"
    /\ ~pre.set
    /\ Option_is_some(pre.value)
    /\ ret.out = None

\* what a deserializer reading back the serialized form hands to deserialize
RoundTrip(x, n) == deserialize(n, [ok |-> TRUE, opt |-> serialize(x, n).ret.out])

\* C14: a field serializes as Some(value) iff it is set, as None otherwise
\* (retained storage or not); a successful deserialize yields none() or
\* some(decoded); so serialize-then-deserialize gives back none for none
\* and some(x) for some(x).
C14_Serde ==
    /\ op = "serialize" => (~ret.panic /\ f = pre /\ ret.out = Logical(pre))
    /\ (op = "deserialize" /\ ~ret.err) =>
          /\ f = from_option(pren, arg[1].opt).self
          /\ f.set <=> Option_is_some(f.value)
          /\ Logical(f) = arg[1].opt
    /\ alive =>
          /\ Logical(RoundTrip(f, nalloc).self) = Logical(f)
          /\ RoundTrip(f, nalloc).self.set <=> Option_is_some(RoundTrip(f, nalloc).self.value)
    /\ RoundTrip(none(nalloc).self, nalloc).self = none(nalloc).self
    /\ \A v \in Val : RoundTrip(some(nalloc, v).self, nalloc).self = some(nalloc, v).self

\* C14 witness: a cleared field with retained storage serialized as None
C14_Witness ==
    /\ op = "serialize"
    /\ ~pre.set
    /\ Option_is_some(pre.value)
    /\ ret.out = None

\* C15: clone leaves the original unchanged and yields an equal field that
\* inherits no retained allocation: absent clones to absent with an empty
\* slot, present clones to present with a copy in its own allocation.
C15_Clone ==
    op = "clone" =>
        /\ ~ret.panic
        /\ f = pre
        /\ ret.new # <<>>
        /\ eq(ret.new[1], f, nalloc).ret.out = Some(TRUE)
        /\ ~pre.set => ret.new[1] = [value |-> None, set |-> FALSE]
        /\ pre.set =>
              /\ ret.new[1].set
              /\ Option_is_some(ret.new[1].value)
              /\ ret.new[1].value[1].val = pre.value[1].val
              /\ AddrOf(ret.new[1]) = pren + 1
              /\ AddrOf(ret.new[1]) # AddrOf(pre)

\* C15 witness: the clone of a cleared field with retained storage has an
\* empty slot
C15_Witness ==
    /\ op = "clone"
    /\ ~pre.set
    /\ Option_is_some(pre.value)
    /\ ret.new = Some([value |-> None, set |-> FALSE])

\* C16: get_or_default changes neither flag nor slot and allocates nothing;
\* it returns the contained value of a present field and the shared default
\* instance for an absent one, retained storage or not.
C16_GetOrDefault ==
    op = "get_or_default" =>
        /\ ~ret.panic
        /\ f = pre
        /\ nalloc = pren
        /\ pre.set => (ret.out = Some(pre.value[1].val) /\ ret.ref = AddrOf(pre))
        /\ ~pre.set => (ret.out = Some(default_instance) /\ ret.ref = 0)

\* C16 witness: get_or_default on a cleared field retaining a non-default
\* value returned the shared instance
C16_Witness ==
    /\ op = "get_or_default"
    /\ ~pre.set
    /\ Option_is_some(pre.value)
    /\ pre.value[1].val # DefaultT
    /\ ret.ref = 0
    /\ f = pre

\* C17 as stated: Option<T>::set_default always constructs a fresh default,
\* whether or not a value is present, never resetting a value in place.
C17_AlwaysFresh == olop = "set_default" => olret[1].dflt = "default"

\* C17 amended: Option<T>::set_default resets a present value in place with
\* Clear and constructs a fresh default only when the Option is None; either
\* way the Option then holds, and the call returns, a T equal to the default.
C17_FreshOnlyWhenNone ==
    olop = "set_default" =>
        /\ olret[1].dflt = (IF Option_is_some(olpre[1]) THEN "clear" ELSE "default")
        /\ o = Some(DefaultT)
        /\ olret[1].out = Some(DefaultT)

\* C17 witness: set_default cleared in place the non-default value an
\* Option<T> held
C17_Witness ==
    /\ olop = "set_default"
    /\ Option_is_some(olpre[1])
    /\ olpre[1] # Some(DefaultT)
    /\ olret[1].dflt = "clear"
    /\ o = Some(DefaultT)

\* C18: unwrap_or(def) and unwrap_or_else(f) never fail: a set field yields
\* its value and f is not called; an absent field yields def / the result
\* of f, not what retained storage holds.
C18_UnwrapOr ==
    op \in {"unwrap_or", "unwrap_or_else"} =>
        /\ ~ret.panic
        /\ pre.set => (ret.out = Some(pre.value[1].val) /\ ~ret.called)
        /\ ~pre.set => (ret.out = arg /\ (ret.called <=> op = "unwrap_or_else"))

\* C18 witness: unwrap_or on a cleared field returned def, which differs
\* from the retained value
C18_Witness ==
    /\ op = "unwrap_or"
    /\ ~pre.set
    /\ Option_is_some(pre.value)
    /\ Some(pre.value[1].val) # arg
    /\ ret.out = arg

\* C19: set_default twice leaves the state set_default once leaves (present,
\* same allocation, default content); and once a slot is filled, clear,
\* set_default, mut_or_default, get_or_default, as_ref and as_mut never
\* replace or release its allocation.
C19_SetDefaultIdempotent ==
    /\ alive =>
          LET r1 == set_default(f, nalloc)
              r2 == set_default(r1.self, r1.n)
          IN  /\ r2.self = r1.self
              /\ r2.n = r1.n
              /\ r2.ret.out = r1.ret.out
              /\ r2.ret.ref = r1.ret.ref
              /\ r1.self.set
              /\ r1.self.value[1].val = DefaultT
    /\ (/\ op \in {"clear", "set_default", "mut_or_default", "get_or_default", "as_ref", "as_mut"}
        /\ Option_is_some(pre.value)) =>
          /\ AddrOf(f) = AddrOf(pre)
          /\ nalloc = pren

\* C19 witness: set_default on a field already present with the default
\* changed nothing
C19_Witness ==
    /\ op = "set_default"
    /\ pre.set
    /\ pre.value[1].val = DefaultT
    /\ f = pre
    /\ nalloc = pren
    /\ ret.dflt = "clear"

====
